---- MODULE Spec2Model ----
(***************************************************************************)
(* ClearHead: the planner task store (src/src/stores/plannerStore.ts), the *)
(* review schedulers (src/assets/README.md), the learning store            *)
(* (src/unnamed/part_002) and the review handler of the learning screen    *)
(* (src/app/(tabs)/learning.tsx).                                          *)
(*                                                                         *)
(* The planner store keeps an in-memory task list (zustand state) next to  *)
(* the SQLite tables tasks and timeline_entries.  Every store function is  *)
(* one action: its optimistic set(), then its database statements, in the  *)
(* order of the code.  A statement fails only when the schema rejects it;  *)
(* every call takes one millisecond of the clock.                          *)
(*                                                                         *)
(* The learning store keeps the lists topics and dueRevisions next to the  *)
(* tables study_topics, revisions and timeline_entries.  Its functions and *)
(* the review handler are one action each, reloads included; between the   *)
(* calls the clock advances by whole days.                                 *)
(***************************************************************************)
EXTENDS Integers, Sequences, FiniteSets, TLC

VARIABLES
    tasks,        \* PlannerState.tasks: the in-memory list, a sequence of task records
    dbTasks,      \* rows of the SQLite table tasks
    dbTimeline,   \* rows of the SQLite table timeline_entries, in insertion (rowid) order
    nextId,       \* the next id of generateId(): one more than the ids handed out to rows
    clock,        \* Date.now() of the planner, in milliseconds since the start of the day
    lastOp,       \* bookkeeping: the store function executed last and what it found
    inflight,     \* the statements issued to SQLite and not yet settled, oldest first, each
                  \* with the call of the store function that awaits it
    batch,        \* bookkeeping: the store as it was when no statement was pending, and the
                  \* calls started since then
    review,       \* a topic's level under successive feedback: the level before the last
                  \* feedback, the feedback, the level after it, and the number of reviews
    wall,         \* Date.now() of the learning screen and the learning store, a timestamp
    probe,        \* the scheduler function called last on one level and one timestamp, and
                  \* what it returned
    topics,       \* LearningState.topics: the in-memory list of study topics
    dueRevisions, \* LearningState.dueRevisions: the in-memory list of due revisions
    dbTopics,     \* rows of the SQLite table study_topics
    dbRevisions,  \* rows of the SQLite table revisions
    lastCall      \* bookkeeping: the learning function executed last, its arguments and
                  \* the rows it read before writing

vars == <<tasks, dbTasks, dbTimeline, nextId, clock, lastOp, inflight, batch, review, wall,
          probe, topics, dueRevisions, dbTopics, dbRevisions, lastCall>>
plannerVars == <<tasks, dbTasks, dbTimeline, nextId, clock, lastOp, inflight, batch>>
storeVars == <<topics, dueRevisions, dbTopics, dbRevisions, lastCall>>
learningVars == <<review, wall, probe, storeVars>>

-----------------------------------------------------------------------------
(* Bounds of the model *)

MaxTasks == 3
MaxClock == 5
MaxTimeline == 4
MaxReviews == 3
MaxDay == 6
MaxMs == 2
MaxTopics == 1
MaxRevisions == 3
MaxCalls == 3

(* null of TypeScript / NULL of SQL, for ids, dates, times, priorities and timestamps *)
NULL == -1

(* formatDate(Date.now()): the calendar day all planner operations happen on, as a day number *)
Today == 1

(* Inputs of addTask and updateTask, as the planner screen passes them *)
Names == {"read"}
Estimates == {30}
AddDates == {Today, Today + 1}
AddTimes == {NULL, 900}
AddPriorities == {NULL, 2}
EditEstimates == {45}
EditPriorities == {1}
LoadDates == {NULL, Today, Today + 1}

-----------------------------------------------------------------------------
(* Helpers on sequences and tables *)

Range(s) == {s[i] : i \in 1..Len(s)}

(* Array.prototype.map and Array.prototype.filter *)
MapSeq(s, Op(_)) == [i \in 1..Len(s) |-> Op(s[i])]
FilterSeq(s, Keep(_)) == SelectSeq(s, Keep)

(* All orderings of a finite set of rows *)
Perms(S) ==
    {s \in [1..Cardinality(S) -> S] : \A i, j \in 1..Cardinality(S) : i # j => s[i] # s[j]}

(* tasks.find(t => t.id === id) is defined (not undefined) *)
found(list, id) == \E i \in 1..Len(list) : list[i].id = id

(* tasks.find(t => t.id === id): the first element with the id *)
find(list, id) ==
    list[CHOOSE i \in 1..Len(list) :
            /\ list[i].id = id
            /\ \A j \in 1..(i - 1) : list[j].id # id]

-----------------------------------------------------------------------------
(* Clock *)

(* now(): Date.now() *)
now == clock

-----------------------------------------------------------------------------
(* Rows *)

(* newTask with a decay cost that starts at 0 *)
newTask_zeroCost(id, name, timeEstimate, date, priority, scheduledTime, timestamp) ==
    [ id |-> id, name |-> name, time_estimate_minutes |-> timeEstimate, decay_cost |-> 0,
      is_recovery |-> FALSE, original_task_id |-> NULL, status |-> "pending",
      scheduled_date |-> date, scheduled_time |-> scheduledTime, priority |-> priority,
      completed_at |-> NULL, skipped_at |-> NULL, created_at |-> timestamp,
      updated_at |-> timestamp ]

(* addTask: the Task object it builds and the row it inserts *)
newTask(id, name, timeEstimate, date, priority, scheduledTime, timestamp) ==
    [ id |-> id,
      name |-> name,
      time_estimate_minutes |-> timeEstimate,
      decay_cost |-> 1,
      is_recovery |-> FALSE,
      original_task_id |-> NULL,
      status |-> "pending",
      scheduled_date |-> date,
      scheduled_time |-> scheduledTime,
      priority |-> priority,
      completed_at |-> NULL,
      skipped_at |-> NULL,
      created_at |-> timestamp,
      updated_at |-> timestamp ]

(* completedTask that sets the status and leaves completed_at alone *)
completedTask_unstamped(t, timestamp) ==
    [t EXCEPT !.status = "completed", !.updated_at = timestamp]

(* completeTask: { ...t, status: 'completed', completed_at, updated_at } and its UPDATE *)
completedTask(t, timestamp) ==
    [t EXCEPT !.status = "completed", !.completed_at = timestamp, !.updated_at = timestamp]

(* skippedTask that also moves the task to the next day *)
skippedTask_movesDate(t, timestamp) ==
    [t EXCEPT !.status = "skipped", !.skipped_at = timestamp, !.updated_at = timestamp,
              !.scheduled_date = t.scheduled_date + 1]

(* skipTask: { ...t, status: 'skipped', skipped_at, updated_at } and its UPDATE *)
skippedTask(t, timestamp) ==
    [t EXCEPT !.status = "skipped", !.skipped_at = timestamp, !.updated_at = timestamp]

(* undoneTask that also stamps the task as newly created *)
undoneTask_restamps(t, timestamp) ==
    [t EXCEPT !.status = "pending", !.completed_at = NULL, !.skipped_at = NULL,
              !.created_at = timestamp, !.updated_at = timestamp]

(* undoneTask that forgets to clear skipped_at *)
undoneTask_keepsSkippedAt(t, timestamp) ==
    [t EXCEPT !.status = "pending", !.completed_at = NULL, !.updated_at = timestamp]

(* undoTask: { ...t, status: 'pending', completed_at: null, skipped_at: null, updated_at } and its UPDATE *)
undoneTask(t, timestamp) ==
    [t EXCEPT !.status = "pending", !.completed_at = NULL, !.skipped_at = NULL,
              !.updated_at = timestamp]

(* updateTask: { ...t, ...updates, updated_at } with the fields the edit modal passes *)
editedTask(t, name, timeEstimate, priority, timestamp) ==
    [t EXCEPT !.name = name, !.time_estimate_minutes = timeEstimate,
              !.priority = priority, !.updated_at = timestamp]

(* undoTask: the rows its filter and its DELETE remove when the undone task was skipped *)
isRecoveryOf(t, id) == t.original_task_id = id /\ t.is_recovery

(* completionEntry that records the completion as avoided *)
completionEntry_avoided(task, timestamp) ==
    [ entry_type |-> "study_session", reference_id |-> task.id, title |-> <<task.name>>,
      description |-> "Task completed", created_at |-> timestamp, was_avoided |-> TRUE ]

(* INSERT INTO timeline_entries of completeTask *)
completionEntry(task, timestamp) ==
    [ entry_type |-> "study_session", reference_id |-> task.id, title |-> <<task.name>>,
      description |-> "Task completed", created_at |-> timestamp, was_avoided |-> FALSE ]

(* INSERT INTO timeline_entries of skipTask *)
skipEntry(task, timestamp) ==
    [ entry_type |-> "planner_failure", reference_id |-> task.id, title |-> <<task.name>>,
      description |-> "Task skipped", created_at |-> timestamp, was_avoided |-> TRUE ]

(* the title `${task.name} (deleted ${deleteDate})` of deleteTask *)
deletedTitle(task) == <<task.name, "deleted", Today>>

(* INSERT INTO timeline_entries of deleteTask, when no entry references the task *)
deletionEntry(task, timestamp) ==
    [ entry_type |-> "planner_failure", reference_id |-> task.id, title |-> deletedTitle(task),
      description |-> "Task deleted", created_at |-> timestamp, was_avoided |-> TRUE ]

(* markedDeleted that rewrites the description but not the title *)
markedDeleted_keepsTitle(e, task) ==
    [e EXCEPT !.description = "Task was deleted", !.was_avoided = TRUE]

(* UPDATE timeline_entries SET title, description, was_avoided of deleteTask *)
markedDeleted(e, task) ==
    [e EXCEPT !.title = deletedTitle(task), !.description = "Task was deleted",
              !.was_avoided = TRUE]

-----------------------------------------------------------------------------
(* SQL statements *)

(* the row of a task id in the table tasks (id is the PRIMARY KEY) *)
hasRow(rows, id) == \E r \in rows : r.id = id
rowOf(rows, id) == CHOOSE r \in rows : r.id = id

(* deleteEntries that removes only the first entry of the task *)
deleteEntries_firstOnly(entries, id) ==
    IF \E i \in 1..Len(entries) : entries[i].reference_id = id
    THEN LET k == CHOOSE i \in 1..Len(entries) :
                      /\ entries[i].reference_id = id
                      /\ \A j \in 1..(i - 1) : entries[j].reference_id # id
         IN SubSeq(entries, 1, k - 1) \o SubSeq(entries, k + 1, Len(entries))
    ELSE entries

(* DELETE FROM timeline_entries WHERE reference_id = ? *)
deleteEntries(entries, id) == FilterSeq(entries, LAMBDA e : e.reference_id # id)

(* withoutTask that also drops the tasks scheduled on the deleted task's date *)
withoutTask_wholeDay(list, id) ==
    FilterSeq(list, LAMBDA t :
        t.id # id /\ ~\E i \in 1..Len(list) :
                         list[i].id = id /\ list[i].scheduled_date = t.scheduled_date)

(* tasks.filter((t) => t.id !== id) of deleteTask *)
withoutTask(list, id) == FilterSeq(list, LAMBDA t : t.id # id)

(* UPDATE tasks SET ... WHERE id = ? *)
updateRow(rows, id, Set(_)) == {IF r.id = id THEN Set(r) ELSE r : r \in rows}

(* original_task_id TEXT REFERENCES tasks(id) under PRAGMA foreign_keys = ON:
   a DELETE fails when a remaining row references a removed one *)
foreignKeyFails(rows, removed) ==
    \E r \in rows \ removed : \E d \in removed : r.original_task_id = d.id

(* ORDER BY scheduled_time ASC NULLS LAST, priority ASC, created_at DESC
   (SQLite puts a NULL priority first in ascending order) *)
orderedBefore(a, b) ==
    IF a.scheduled_time # b.scheduled_time
    THEN IF a.scheduled_time = NULL THEN FALSE
         ELSE IF b.scheduled_time = NULL THEN TRUE
         ELSE a.scheduled_time < b.scheduled_time
    ELSE IF a.priority # b.priority
    THEN a.priority < b.priority
    ELSE a.created_at >= b.created_at

(* the result sets SELECT * FROM tasks [WHERE scheduled_date = ?] ORDER BY ... may return;
   rows the ORDER BY does not separate come in either order *)
selectTasks(rows, date) ==
    LET hit == {r \in rows : date = NULL \/ r.scheduled_date = date}
    IN {s \in Perms(hit) : \A i, j \in 1..Len(s) : i < j => orderedBefore(s[i], s[j])}

-----------------------------------------------------------------------------
(* The planner store *)

(* what lastOp records of a call: the function, its id argument, its timestamp, whether the
   task was in the in-memory list, the status it had there, whether the call threw, and the
   call before it as <<function, id, status found, threw>> *)
opRecord(op, id, threw) ==
    [ op |-> op, id |-> id, ts |-> now,
      found |-> found(tasks, id),
      prev |-> IF found(tasks, id) THEN find(tasks, id).status ELSE "none",
      threw |-> threw,
      pred |-> <<lastOp.op, lastOp.id, lastOp.prev, lastOp.threw>> ]

PlannerInit ==
    /\ tasks = <<>>
    /\ dbTasks = {}
    /\ dbTimeline = <<>>
    /\ nextId = 1
    /\ clock = 1
    /\ lastOp = [op |-> "init", id |-> NULL, ts |-> 0, found |-> FALSE, prev |-> "none",
                 threw |-> FALSE, pred |-> <<"init", NULL, "none", FALSE>>]
    /\ inflight = <<>>
    /\ batch = [base |-> [tasks |-> <<>>, dbTasks |-> {}, dbTimeline |-> <<>>,
                          inflight |-> <<>>],
                calls |-> <<>>, failed |-> FALSE]

(* loadTasks(date): date = NULL is the call without a date *)
loadTasks(date) ==
    /\ clock < MaxClock
    /\ tasks' \in selectTasks(dbTasks, date)
    /\ clock' = clock + 1
    /\ lastOp' = opRecord("loadTasks", NULL, FALSE)
    /\ UNCHANGED <<dbTasks, dbTimeline, nextId, inflight, batch, learningVars>>

(* addTask(name, timeEstimate, date, priority, false, undefined, undefined, scheduledTime) *)
addTask(name, timeEstimate, date, priority, scheduledTime) ==
    /\ clock < MaxClock
    /\ nextId <= MaxTasks
    /\ LET task == newTask(nextId, name, timeEstimate, date, priority, scheduledTime, now)
       IN /\ dbTasks' = dbTasks \cup {task}
          /\ tasks' = <<task>> \o tasks
    /\ nextId' = nextId + 1
    /\ clock' = clock + 1
    /\ lastOp' = opRecord("addTask", nextId, FALSE)
    /\ UNCHANGED <<dbTimeline, inflight, batch, learningVars>>

(* updateTask(id, {name, time_estimate_minutes, priority}) *)
updateTask(id, name, timeEstimate, priority) ==
    /\ clock < MaxClock
    /\ dbTasks' = updateRow(dbTasks, id, LAMBDA r : editedTask(r, name, timeEstimate, priority, now))
    /\ tasks' = MapSeq(tasks, LAMBDA t :
                    IF t.id = id THEN editedTask(t, name, timeEstimate, priority, now) ELSE t)
    /\ clock' = clock + 1
    /\ lastOp' = opRecord("updateTask", id, FALSE)
    /\ UNCHANGED <<dbTimeline, nextId, inflight, batch, learningVars>>

(* deleteTask(id) *)
deleteTask(id) ==
    /\ clock < MaxClock
    /\ Len(dbTimeline) < MaxTimeline
    /\ tasks' = withoutTask(tasks, id)
    /\ LET removed == {r \in dbTasks : r.id = id}
       IN IF foreignKeyFails(dbTasks, removed)
          THEN \* DELETE FROM tasks throws; deleteTask rejects after its optimistic delete
               /\ lastOp' = opRecord("deleteTask", id, TRUE)
               /\ UNCHANGED <<dbTasks, dbTimeline>>
          ELSE /\ dbTasks' = dbTasks \ removed
               /\ lastOp' = opRecord("deleteTask", id, FALSE)
               /\ IF found(tasks, id)
                  THEN LET task == find(tasks, id)
                       IN IF \E i \in 1..Len(dbTimeline) : dbTimeline[i].reference_id = id
                          THEN dbTimeline' = MapSeq(dbTimeline, LAMBDA e :
                                   IF e.reference_id = id THEN markedDeleted(e, task) ELSE e)
                          ELSE dbTimeline' = Append(dbTimeline, deletionEntry(task, now))
                  ELSE UNCHANGED dbTimeline
    /\ clock' = clock + 1
    /\ UNCHANGED <<nextId, inflight, batch, learningVars>>

(* completeTask(id) *)
completeTask(id) ==
    /\ clock < MaxClock
    /\ Len(dbTimeline) < MaxTimeline
    /\ tasks' = MapSeq(tasks, LAMBDA t : IF t.id = id THEN completedTask(t, now) ELSE t)
    /\ dbTasks' = updateRow(dbTasks, id, LAMBDA r : completedTask(r, now))
    /\ IF found(tasks, id)
       THEN dbTimeline' = Append(dbTimeline, completionEntry(find(tasks, id), now))
       ELSE UNCHANGED dbTimeline
    /\ clock' = clock + 1
    /\ lastOp' = opRecord("completeTask", id, FALSE)
    /\ UNCHANGED <<nextId, inflight, batch, learningVars>>

(* skipTask(id) *)
skipTask(id) ==
    /\ clock < MaxClock
    /\ Len(dbTimeline) < MaxTimeline
    /\ IF ~found(tasks, id)
       THEN \* throw new Error('Task not found')
            /\ lastOp' = opRecord("skipTask", id, TRUE)
            /\ UNCHANGED <<tasks, dbTasks, dbTimeline>>
       ELSE /\ tasks' = MapSeq(tasks, LAMBDA t : IF t.id = id THEN skippedTask(t, now) ELSE t)
            /\ dbTasks' = updateRow(dbTasks, id, LAMBDA r : skippedTask(r, now))
            /\ dbTimeline' = Append(dbTimeline, skipEntry(find(tasks, id), now))
            /\ lastOp' = opRecord("skipTask", id, FALSE)
    /\ clock' = clock + 1
    /\ UNCHANGED <<nextId, inflight, batch, learningVars>>

(* undoTask(id) *)
undoTask(id) ==
    /\ clock < MaxClock
    /\ IF ~found(tasks, id)
       THEN \* throw new Error('Task not found')
            /\ lastOp' = opRecord("undoTask", id, TRUE)
            /\ UNCHANGED <<tasks, dbTasks, dbTimeline>>
       ELSE LET task == find(tasks, id)
                wasSkipped == task.status = "skipped"
                optimistic == FilterSeq(
                    MapSeq(tasks, LAMBDA t : IF t.id = id THEN undoneTask(t, now) ELSE t),
                    LAMBDA t : ~(wasSkipped /\ isRecoveryOf(t, id)))
                updated == updateRow(dbTasks, id, LAMBDA r : undoneTask(r, now))
                removed == {r \in updated : wasSkipped /\ isRecoveryOf(r, id)}
            IN /\ lastOp' = opRecord("undoTask", id, FALSE)
               /\ IF foreignKeyFails(updated, removed)
                  THEN \* the DELETE throws: catch, then loadTasks() without a date
                       /\ dbTasks' = updated
                       /\ tasks' \in selectTasks(updated, NULL)
                       /\ UNCHANGED dbTimeline
                  ELSE /\ tasks' = optimistic
                       /\ dbTasks' = updated \ removed
                       /\ dbTimeline' = deleteEntries(dbTimeline, id)
    /\ clock' = clock + 1
    /\ UNCHANGED <<nextId, inflight, batch, learningVars>>

(* the ids generateId() has handed out so far: the ids a caller can pass *)
IssuedIds == 1..(nextId - 1)

-----------------------------------------------------------------------------
(* The level-based review scheduler *)

REVIEW_INTERVALS == <<1, 2, 5, 10, 21, 50, 90, 180, 365>>

ReviewFeedback == {"again", "hard", "good", "easy"}

Max(a, b) == IF a >= b THEN a ELSE b
Min(a, b) == IF a <= b THEN a ELSE b

(* calculateNextLevel without the clamp of easy at the end of the table *)
calculateNextLevel_noCeiling(currentLevel, feedback) ==
    CASE feedback = "again" -> 0
      [] feedback = "hard" -> Max(0, currentLevel - 1)
      [] feedback = "good" -> currentLevel
      [] feedback = "easy" -> currentLevel + 1

(* calculateNextLevel(currentLevel, feedback) *)
calculateNextLevel(currentLevel, feedback) ==
    CASE feedback = "again" -> 0
      [] feedback = "hard" -> Max(0, currentLevel - 1)
      [] feedback = "good" -> currentLevel
      [] feedback = "easy" -> Min(Len(REVIEW_INTERVALS) - 1, currentLevel + 1)

(* the levels of the interval table, 0..8 *)
Levels == 0..(Len(REVIEW_INTERVALS) - 1)

LearningIdle ==
    review = [level |-> 0, feedback |-> "none", nextLevel |-> 0, count |-> 0]

LevelInit ==
    review \in {[level |-> l, feedback |-> "none", nextLevel |-> l, count |-> 0] : l \in Levels}

(* one feedback on a topic at level review.nextLevel: handleReviewFeedback's level: nextLevel *)
submitFeedback(feedback) ==
    /\ review.count < MaxReviews
    /\ review' = [ level |-> review.nextLevel,
                   feedback |-> feedback,
                   nextLevel |-> calculateNextLevel(review.nextLevel, feedback),
                   count |-> review.count + 1 ]
    /\ UNCHANGED <<plannerVars, wall, probe, storeVars>>

-----------------------------------------------------------------------------
(* Timestamps: milliseconds since the epoch, kept as whole days plus the   *)
(* milliseconds within the day; null and NaN are values of their own       *)

(* 24 * 60 * 60 * 1000, the milliseconds of one day *)
DAY == 86400000

Time(d, ms) == [kind |-> "time", d |-> d, ms |-> ms]
NoTime == [kind |-> "null", d |-> 0, ms |-> 0]
NaNTime == [kind |-> "NaN", d |-> 0, ms |-> 0]

(* JavaScript truthiness of a number | null: null, NaN and 0 are falsy *)
truthy(t) == t.kind = "time" /\ ~(t.d = 0 /\ t.ms = 0)

(* t + n * 24 * 60 * 60 * 1000 *)
plusDays(t, n) == Time(t.d + n, t.ms)
(* t + k, for 0 <= k < DAY *)
plusMs(t, k) == Time(t.d + ((t.ms + k) \div DAY), (t.ms + k) % DAY)
(* a <= b on numbers *)
atOrBefore(a, b) == a.d < b.d \/ (a.d = b.d /\ a.ms <= b.ms)
(* Math.floor((later - earlier) / (1000 * 60 * 60 * 24)) *)
wholeDays(later, earlier) == (later.d - earlier.d) - (IF later.ms < earlier.ms THEN 1 ELSE 0)

(* Date.now() of the learning screen and now() of the learning store *)
Date_now == wall

-----------------------------------------------------------------------------
(* The level-based scheduler: review date, mastery, due test and decay state *)

(* a mastery level in the middle of the interval table, one level early *)
MASTERY_LEVEL_midTable == Len(REVIEW_INTERVALS) \div 2
MASTERY_LEVEL == 5

(* REVIEW_INTERVALS[Math.min(level, REVIEW_INTERVALS.length - 1)]; an index below 0 reads
   undefined *)
intervalDays(level) ==
    LET intervalIndex == Min(level, Len(REVIEW_INTERVALS) - 1)
    IN  IF intervalIndex >= 0 THEN REVIEW_INTERVALS[intervalIndex + 1] ELSE NULL

(* calculateNextReview(level); now + undefined * ... is NaN *)
calculateNextReview(level) ==
    IF intervalDays(level) = NULL THEN NaNTime ELSE plusDays(Date_now, intervalDays(level))

(* calculateNextReviewFromFeedback taking the interval of the level before the feedback *)
calculateNextReviewFromFeedback_levelBefore(currentLevel, feedback) ==
    LET nextLevel == calculateNextLevel(currentLevel, feedback)
    IN  [ nextLevel |-> nextLevel,
          nextReviewAt |-> calculateNextReview(currentLevel),
          isMastered |-> nextLevel >= MASTERY_LEVEL ]

(* calculateNextReviewFromFeedback(currentLevel, feedback) *)
calculateNextReviewFromFeedback(currentLevel, feedback) ==
    LET nextLevel == calculateNextLevel(currentLevel, feedback)
    IN  [ nextLevel |-> nextLevel,
          nextReviewAt |-> calculateNextReview(nextLevel),
          isMastered |-> nextLevel >= MASTERY_LEVEL ]

(* needsReviewToday(nextReviewAt) *)
needsReviewToday(nextReviewAt) ==
    IF ~truthy(nextReviewAt) THEN FALSE ELSE atOrBefore(nextReviewAt, Date_now)

(* calculateDecayState turning critical only after the fourth day overdue *)
calculateDecayState_lateCritical(nextReviewAt) ==
    IF ~truthy(nextReviewAt) THEN "fresh"
    ELSE LET daysOverdue == wholeDays(Date_now, nextReviewAt)
         IN  CASE daysOverdue < 0 -> "fresh"
               [] daysOverdue = 0 -> "due"
               [] daysOverdue \in 1..4 -> "overdue"
               [] OTHER -> "critical"

(* calculateDecayState(nextReviewAt) of the level-based scheduler *)
calculateDecayState(nextReviewAt) ==
    IF ~truthy(nextReviewAt) THEN "fresh"
    ELSE LET daysOverdue == wholeDays(Date_now, nextReviewAt)
         IN  CASE daysOverdue < 0 -> "fresh"
               [] daysOverdue = 0 -> "due"
               [] daysOverdue \in 1..3 -> "overdue"
               [] OTHER -> "critical"

(* The scheduler functions applied to one level and one reference timestamp, both drawn at
   the start, while the clock advances by a millisecond or by a day *)
ProbeLevels == (0 - 2)..(Len(REVIEW_INTERVALS) + 1)
ProbeStart == Time(1, 0)
ProbeTimes == {NoTime, Time(0, 0), Time(1, 0), Time(1, 1), Time(3, 0)}

probeRecord(level, t) ==
    [ fn |-> "none", level |-> level, t |-> t, feedback |-> "none",
      nextLevel |-> level, nextReviewAt |-> NoTime, isMastered |-> FALSE,
      due |-> FALSE, decay |-> "none", at |-> NoTime ]

SchedulerIdle == probe = probeRecord(0, NoTime)

SchedulerInit ==
    /\ probe \in {probeRecord(l, t) : l \in ProbeLevels, t \in ProbeTimes}
    /\ wall = ProbeStart

passMillisecond ==
    /\ wall.ms < MaxMs
    /\ wall' = plusMs(wall, 1)
    /\ UNCHANGED <<plannerVars, review, probe, storeVars>>

passDay ==
    /\ wall.d < MaxDay
    /\ wall' = plusDays(wall, 1)
    /\ UNCHANGED <<plannerVars, review, probe, storeVars>>

(* each call records its arguments, the clock and its result *)
called(fn) == [probeRecord(probe.level, probe.t) EXCEPT !.fn = fn, !.at = Date_now]

callNextReviewFromFeedback(feedback) ==
    LET out == calculateNextReviewFromFeedback(probe.level, feedback)
    IN  /\ probe' = [called("calculateNextReviewFromFeedback") EXCEPT
                        !.feedback = feedback,
                        !.nextLevel = out.nextLevel,
                        !.nextReviewAt = out.nextReviewAt,
                        !.isMastered = out.isMastered]
        /\ UNCHANGED <<plannerVars, review, wall, storeVars>>

callNextReview ==
    /\ probe' = [called("calculateNextReview") EXCEPT
                    !.nextReviewAt = calculateNextReview(probe.level)]
    /\ UNCHANGED <<plannerVars, review, wall, storeVars>>

callNeedsReviewToday ==
    /\ probe' = [called("needsReviewToday") EXCEPT !.due = needsReviewToday(probe.t)]
    /\ UNCHANGED <<plannerVars, review, wall, storeVars>>

callDecayState ==
    /\ probe' = [called("calculateDecayState") EXCEPT !.decay = calculateDecayState(probe.t)]
    /\ UNCHANGED <<plannerVars, review, wall, storeVars>>

-----------------------------------------------------------------------------
(* The confidence-based scheduler, the one the learning store imports *)

REVIEW_INTERVALS_confidence == <<1, 3, 7, 21, 45>>

(* calculateNextReview(reviewCount, confidence): Math.floor(intervalDays * modifier) with
   modifier = 0.5 + confidence / 100 below 50 and 1 + (confidence - 70) / 100 above 70,
   in hundredths *)
calculateNextReview_confidence(reviewCount, confidence) ==
    LET intervalIndex == Min(reviewCount, Len(REVIEW_INTERVALS_confidence) - 1)
        base == REVIEW_INTERVALS_confidence[intervalIndex + 1]
        days == IF confidence < 50 THEN Max(1, (base * (50 + confidence)) \div 100)
                ELSE IF confidence > 70 THEN (base * (100 + (confidence - 70))) \div 100
                ELSE base
    IN  plusDays(Date_now, days)

(* calculateDecayState(lastReviewedAt) of the confidence-based scheduler *)
calculateDecayState_confidence(lastReviewedAt) ==
    LET daysSinceReview == wholeDays(Date_now, lastReviewedAt)
    IN  CASE daysSinceReview <= 1 -> "fresh"
          [] daysSinceReview \in 2..3 -> "unstable"
          [] daysSinceReview \in 4..7 -> "decaying"
          [] OTHER -> "neglected"

(* a || b on timestamps *)
orElse(a, b) == IF truthy(a) THEN a ELSE b

-----------------------------------------------------------------------------
(* Rows of study_topics, revisions and timeline_entries as the learning store writes them *)

(* the StudyTopic of addTopic; level and is_mastered take the column defaults *)
newTopic(id, confidence, timestamp, nextReview) ==
    [ id |-> id,
      confidence_level |-> confidence,
      integrity_percent |-> 100,
      decay_state |-> "fresh",
      last_reviewed_at |-> timestamp,
      next_review_at |-> nextReview,
      review_count |-> 0,
      created_at |-> timestamp,
      level |-> 0,
      is_mastered |-> FALSE ]

(* INSERT INTO revisions (id, topic_id, scheduled_at, created_at) *)
newRevision(id, topicId, scheduledAt, timestamp) ==
    [ id |-> id,
      topic_id |-> topicId,
      scheduled_at |-> scheduledAt,
      completed_at |-> NoTime,
      was_missed |-> FALSE,
      confidence_before |-> NULL,
      confidence_after |-> NULL,
      created_at |-> timestamp ]

(* INSERT INTO timeline_entries of addTopic *)
studyEntry(topic, timestamp) ==
    [ entry_type |-> "study_session", reference_id |-> topic.id,
      description |-> <<"studied", topic.confidence_level>>,
      created_at |-> timestamp, was_avoided |-> FALSE ]

(* the updates handleReviewFeedback passes to updateTopic *)
reviewedTopic(row, topic, feedback) ==
    LET next == calculateNextReviewFromFeedback(topic.level, feedback)
    IN  [row EXCEPT !.level = next.nextLevel,
                    !.next_review_at = next.nextReviewAt,
                    !.last_reviewed_at = Date_now,
                    !.review_count = topic.review_count + 1,
                    !.is_mastered = next.isMastered,
                    !.decay_state = "fresh"]

(* UPDATE revisions SET completed_at, confidence_after, confidence_before of completeRevision *)
completedRevision(revision, topic, confidenceAfter, timestamp) ==
    [revision EXCEPT !.completed_at = timestamp,
                     !.confidence_after = confidenceAfter,
                     !.confidence_before = topic.confidence_level]

(* UPDATE study_topics of completeRevision *)
revisedTopic(topic, confidenceAfter, timestamp) ==
    [topic EXCEPT !.confidence_level = confidenceAfter,
                  !.last_reviewed_at = timestamp,
                  !.next_review_at = calculateNextReview_confidence(topic.review_count + 1,
                                                                    confidenceAfter),
                  !.review_count = topic.review_count + 1,
                  !.integrity_percent = 100,
                  !.decay_state = "fresh"]

(* UPDATE revisions SET was_missed = 1 *)
missedRevision(revision) == [revision EXCEPT !.was_missed = TRUE]

(* the UPDATE study_topics of markRevisionMissed with a penalty of 10 *)
missedTopic_penaltyTen(topic, timestamp) ==
    [topic EXCEPT !.decay_state =
                      calculateDecayState_confidence(orElse(topic.last_reviewed_at, timestamp)),
                  !.integrity_percent = Max(0, topic.integrity_percent - 10)]

(* UPDATE study_topics SET decay_state, integrity_percent of markRevisionMissed *)
missedTopic(topic, timestamp) ==
    [topic EXCEPT !.decay_state =
                      calculateDecayState_confidence(orElse(topic.last_reviewed_at, timestamp)),
                  !.integrity_percent = Max(0, topic.integrity_percent - 15)]

(* INSERT INTO timeline_entries of markRevisionMissed *)
missedEntry(revisionId, topic, timestamp) ==
    [ entry_type |-> "missed_revision", reference_id |-> revisionId,
      description |-> <<"missed", Max(0, topic.integrity_percent - 15)>>,
      created_at |-> timestamp, was_avoided |-> TRUE ]

(* the row updateDecayStates leaves for a topic: the decay state of the days since the last
   review and an integrity of 100 less 2 per day after the first *)
decayedTopic(topic, timestamp) ==
    LET since == orElse(topic.last_reviewed_at, topic.created_at)
        daysSinceReview == wholeDays(timestamp, since)
        decayAmount == Max(0, (daysSinceReview - 1) * 2)
    IN  [topic EXCEPT !.decay_state = calculateDecayState_confidence(since),
                      !.integrity_percent = Max(0, 100 - decayAmount)]

(* SELECT * FROM study_topics ORDER BY next_review_at ASC NULLS LAST: the result sets the
   query may return *)
topicBefore(a, b) ==
    \/ b.next_review_at.kind # "time"
    \/ a.next_review_at.kind = "time" /\ atOrBefore(a.next_review_at, b.next_review_at)

selectTopics(rows) ==
    {s \in Perms(rows) : \A i, j \in 1..Len(s) : i < j => topicBefore(s[i], s[j])}

(* SELECT r.* FROM revisions r JOIN study_topics st ON r.topic_id = st.id
   WHERE r.scheduled_at <= ? AND r.completed_at IS NULL ORDER BY r.scheduled_at ASC *)
selectDueRevisions(revisions, rows, today) ==
    LET hit == {r \in revisions : /\ hasRow(rows, r.topic_id)
                                  /\ atOrBefore(r.scheduled_at, today)
                                  /\ r.completed_at = NoTime}
    IN  {s \in Perms(hit) : \A i, j \in 1..Len(s) :
                               i < j => atOrBefore(s[i].scheduled_at, s[j].scheduled_at)}

-----------------------------------------------------------------------------
(* The learning store and the review handler of the learning screen *)

(* what lastCall records: the function, its id argument, and the number of calls so far *)
callRecord(op, id) == [op |-> op, id |-> id, n |-> lastCall.n + 1]

StoreIdle ==
    /\ wall = ProbeStart
    /\ topics = <<>>
    /\ dueRevisions = <<>>
    /\ dbTopics = {}
    /\ dbRevisions = {}
    /\ lastCall = [op |-> "none", id |-> NULL, n |-> 0]

(* the topics the review tab offers with a Review button: learntToday and forReview *)
learntToday(t) == t.created_at.d = Date_now.d /\ t.review_count = 0
forReview(t) == needsReviewToday(t.next_review_at) /\ ~t.is_mastered /\ t.review_count > 0

(* a stay away from the app of LongAbsence days *)
LongAbsence == 50
passLongAbsence ==
    /\ wall.d < MaxDay
    /\ wall' = plusDays(wall, LongAbsence)
    /\ UNCHANGED <<plannerVars, review, probe, storeVars>>

loadTopics ==
    /\ lastCall.n < MaxCalls
    /\ topics' \in selectTopics(dbTopics)
    /\ lastCall' = callRecord("loadTopics", NULL)
    /\ UNCHANGED <<tasks, dbTasks, dbTimeline, nextId, clock, lastOp, inflight, batch, review, wall, probe,
                   dueRevisions, dbTopics, dbRevisions>>

loadDueRevisions ==
    /\ lastCall.n < MaxCalls
    /\ dueRevisions' \in selectDueRevisions(dbRevisions, dbTopics, Date_now)
    /\ lastCall' = callRecord("loadDueRevisions", NULL)
    /\ UNCHANGED <<tasks, dbTasks, dbTimeline, nextId, clock, lastOp, inflight, batch, review, wall, probe,
                   topics, dbTopics, dbRevisions>>

(* addTopic(topic, timeSpent, confidence) *)
addTopic(confidence) ==
    /\ lastCall.n < MaxCalls
    /\ Cardinality(dbTopics) < MaxTopics
    /\ Len(dbTimeline) < MaxTimeline
    /\ LET timestamp == Date_now
           nextReview == calculateNextReview_confidence(0, confidence)
           topic == newTopic(nextId, confidence, timestamp, nextReview)
       IN  /\ dbTopics' = dbTopics \cup {topic}
           /\ dbRevisions' = dbRevisions \cup {newRevision(nextId + 1, nextId, nextReview, timestamp)}
           /\ dbTimeline' = Append(dbTimeline, studyEntry(topic, timestamp))
           /\ topics' = <<topic>> \o topics
    /\ nextId' = nextId + 2
    /\ lastCall' = callRecord("addTopic", nextId)
    /\ UNCHANGED <<tasks, dbTasks, clock, lastOp, inflight, batch, review, wall, probe, dueRevisions>>

(* handleReviewFeedback(feedback) with reviewingTopic = topics[i]: updateTopic, then
   loadTopics *)
handleReviewFeedback(i, feedback) ==
    /\ lastCall.n < MaxCalls
    /\ i \in 1..Len(topics)
    /\ learntToday(topics[i]) \/ forReview(topics[i])
    /\ LET reviewingTopic == topics[i]
       IN  /\ dbTopics' = updateRow(dbTopics, reviewingTopic.id,
                                    LAMBDA r : reviewedTopic(r, reviewingTopic, feedback))
           /\ lastCall' = callRecord("handleReviewFeedback", reviewingTopic.id)
    /\ topics' \in selectTopics(dbTopics')
    /\ UNCHANGED <<tasks, dbTasks, dbTimeline, nextId, clock, lastOp, inflight, batch, review, wall, probe,
                   dueRevisions, dbRevisions>>

(* completeRevision(revisionId, confidenceAfter) *)
completeRevision(revisionId, confidenceAfter) ==
    /\ lastCall.n < MaxCalls
    /\ Cardinality(dbRevisions) < MaxRevisions
    /\ lastCall' = callRecord("completeRevision", revisionId)
    /\ IF ~hasRow(dbRevisions, revisionId)
         \/ ~hasRow(dbTopics, rowOf(dbRevisions, revisionId).topic_id)
       THEN UNCHANGED <<dbTopics, dbRevisions, nextId, topics, dueRevisions>>
       ELSE LET timestamp == Date_now
                revision == rowOf(dbRevisions, revisionId)
                topic == rowOf(dbTopics, revision.topic_id)
                revised == revisedTopic(topic, confidenceAfter, timestamp)
            IN  /\ dbRevisions' =
                       updateRow(dbRevisions, revisionId,
                                 LAMBDA r : completedRevision(r, topic, confidenceAfter, timestamp))
                       \cup {newRevision(nextId, topic.id, revised.next_review_at, timestamp)}
                /\ dbTopics' = updateRow(dbTopics, topic.id, LAMBDA r : revised)
                /\ nextId' = nextId + 1
                /\ topics' \in selectTopics(dbTopics')
                /\ dueRevisions' \in selectDueRevisions(dbRevisions', dbTopics', timestamp)
    /\ UNCHANGED <<tasks, dbTasks, dbTimeline, clock, lastOp, inflight, batch, review, wall, probe>>

(* markRevisionMissed(revisionId) *)
markRevisionMissed(revisionId) ==
    /\ lastCall.n < MaxCalls
    /\ Len(dbTimeline) < MaxTimeline
    /\ lastCall' = callRecord("markRevisionMissed", revisionId)
    /\ LET timestamp == Date_now
       IN  /\ dbRevisions' = updateRow(dbRevisions, revisionId, LAMBDA r : missedRevision(r))
           /\ IF /\ hasRow(dbRevisions, revisionId)
                 /\ hasRow(dbTopics, rowOf(dbRevisions, revisionId).topic_id)
              THEN LET topic == rowOf(dbTopics, rowOf(dbRevisions, revisionId).topic_id)
                   IN  /\ dbTopics' = updateRow(dbTopics, topic.id,
                                                LAMBDA r : missedTopic(r, timestamp))
                       /\ dbTimeline' = Append(dbTimeline, missedEntry(revisionId, topic, timestamp))
              ELSE UNCHANGED <<dbTopics, dbTimeline>>
           /\ topics' \in selectTopics(dbTopics')
           /\ dueRevisions' \in selectDueRevisions(dbRevisions', dbTopics', timestamp)
    /\ UNCHANGED <<tasks, dbTasks, nextId, clock, lastOp, inflight, batch, review, wall, probe>>

(* updateDecayStates() *)
updateDecayStates ==
    /\ lastCall.n < MaxCalls
    /\ dbTopics' = {decayedTopic(t, Date_now) : t \in dbTopics}
    /\ topics' \in selectTopics(dbTopics')
    /\ lastCall' = callRecord("updateDecayStates", NULL)
    /\ UNCHANGED <<tasks, dbTasks, dbTimeline, nextId, clock, lastOp, inflight, batch, review, wall, probe,
                   dueRevisions, dbRevisions>>

-----------------------------------------------------------------------------
(* Specifications *)

Init == PlannerInit /\ LearningIdle /\ SchedulerIdle /\ StoreIdle

Next ==
    \/ \E d \in LoadDates : loadTasks(d)
    \/ \E n \in Names, m \in Estimates, d \in AddDates, p \in AddPriorities, t \in AddTimes :
          addTask(n, m, d, p, t)
    \/ \E id \in IssuedIds, n \in Names, m \in EditEstimates, p \in EditPriorities :
          updateTask(id, n, m, p)
    \/ \E id \in IssuedIds : deleteTask(id)
    \/ \E id \in IssuedIds : completeTask(id)
    \/ \E id \in IssuedIds : skipTask(id)
    \/ \E id \in IssuedIds : undoTask(id)

(* the planner store under any sequence of calls of its functions *)
Spec == Init /\ [][Next]_vars

SpecLevelInit == PlannerInit /\ LevelInit /\ SchedulerIdle /\ StoreIdle

SpecLevelNext == \E f \in ReviewFeedback : submitFeedback(f)

(* calculateNextLevel applied to every level of the table under any feedback sequence *)
SpecLevel == SpecLevelInit /\ [][SpecLevelNext]_vars

SpecSchedulerInit ==
    /\ PlannerInit /\ LearningIdle /\ SchedulerInit
    /\ topics = <<>> /\ dueRevisions = <<>> /\ dbTopics = {} /\ dbRevisions = {}
    /\ lastCall = [op |-> "none", id |-> NULL, n |-> 0]

SpecSchedulerNext ==
    \/ passMillisecond
    \/ passDay
    \/ \E f \in ReviewFeedback : callNextReviewFromFeedback(f)
    \/ callNextReview
    \/ callNeedsReviewToday
    \/ callDecayState

(* the level-based scheduler functions on every level and timestamp as the clock advances *)
SpecScheduler == SpecSchedulerInit /\ [][SpecSchedulerNext]_vars

ConfidenceLevels == {50}
ConfidencesAfter == {30, 80}

SpecLearningInit == PlannerInit /\ LearningIdle /\ SchedulerIdle /\ StoreIdle

SpecLearningNext ==
    \/ passDay
    \/ passLongAbsence
    \/ loadTopics
    \/ loadDueRevisions
    \/ \E c \in ConfidenceLevels : addTopic(c)
    \/ \E i \in 1..MaxTopics, f \in ReviewFeedback : handleReviewFeedback(i, f)
    \/ \E id \in IssuedIds, c \in ConfidencesAfter : completeRevision(id, c)
    \/ \E id \in IssuedIds : markRevisionMissed(id)
    \/ updateDecayStates

(* the learning store and the review handler under any sequence of calls while days pass *)
SpecLearning == SpecLearningInit /\ [][SpecLearningNext]_vars

-----------------------------------------------------------------------------
(* Properties of the planner store *)

AllTasks == Range(tasks) \cup dbTasks

(* the task id is in the in-memory list and in the table, and both copies satisfy P *)
BothCopies(id, P(_)) ==
    /\ found(tasks, id) /\ P(find(tasks, id))
    /\ hasRow(dbTasks, id) /\ P(rowOf(dbTasks, id))

(* C1: skipTask(id) of a pending task followed by undoTask(id) leaves the task pending with
   skipped_at = null, in memory and in the table, and no recovery task of it exists in
   either place. *)
C1_SkipUndoRoundTrip ==
    (lastOp.op = "undoTask" /\ lastOp.pred = <<"skipTask", lastOp.id, "pending", FALSE>>)
    => /\ BothCopies(lastOp.id, LAMBDA t : t.status = "pending" /\ t.skipped_at = NULL)
       /\ \A t \in AllTasks : ~(t.is_recovery /\ t.original_task_id = lastOp.id)

C1_Witness ==
    /\ lastOp.op = "undoTask" /\ ~lastOp.threw /\ lastOp.prev = "skipped"
    /\ lastOp.pred = <<"skipTask", lastOp.id, "pending", FALSE>>
    /\ BothCopies(lastOp.id, LAMBDA t : t.status = "pending")

(* C2: undoTask of a completed or skipped task sets it to pending, clears completed_at and
   skipped_at, and leaves no timeline entry whose reference_id is the task's id. *)
C2_UndoErases ==
    (lastOp.op = "undoTask" /\ lastOp.prev \in {"completed", "skipped"})
    => /\ BothCopies(lastOp.id, LAMBDA t :
              t.status = "pending" /\ t.completed_at = NULL /\ t.skipped_at = NULL)
       /\ \A i \in 1..Len(dbTimeline) : dbTimeline[i].reference_id # lastOp.id

C2_Witness ==
    /\ lastOp.op = "undoTask" /\ lastOp.prev = "completed"
    /\ lastOp.pred = <<"completeTask", lastOp.id, "pending", FALSE>>
    /\ BothCopies(lastOp.id, LAMBDA t : t.status = "pending" /\ t.completed_at = NULL)

(* Math.ceil(m * 1.25) for a non-negative whole number of minutes m *)
CeilFiveQuarters(m) == (5 * m + 3) \div 4

(* the calendar day after day d *)
NextCalendarDay(d) == d + 1

(* the recovery task the claim expects of skipping task t: cost + 2, ceil(1.25 * minutes),
   priority 1, the day after the scheduled date (after today when the date is null) *)
IsRecoveryFor(r, t) ==
    /\ r.is_recovery
    /\ r.original_task_id = t.id
    /\ r.decay_cost = t.decay_cost + 2
    /\ r.time_estimate_minutes = CeilFiveQuarters(t.time_estimate_minutes)
    /\ r.priority = 1
    /\ r.scheduled_date =
          NextCalendarDay(IF t.scheduled_date = NULL THEN Today ELSE t.scheduled_date)

(* C3: skipTask of a task creates a recovery task with is_recovery = true, original_task_id
   = the task's id, decay_cost + 2, ceil(1.25 * minutes), priority 1 and the next calendar
   day as scheduled date. *)
C3_SkipSpawnsRecovery ==
    (lastOp.op = "skipTask" /\ ~lastOp.threw)
    => \E r \in dbTasks : IsRecoveryFor(r, rowOf(dbTasks, lastOp.id))

(* C4: every task has decay_cost >= 1, and 1 when addTask created it; every recovery task
   names the task it was spawned from; decay_cost does not decrease from a task to a
   recovery task spawned from it. *)
C4_DecayCostInvariant ==
    \A t \in AllTasks :
        /\ t.decay_cost >= 1
        /\ ~t.is_recovery => t.decay_cost = 1
        /\ t.is_recovery => t.original_task_id # NULL
        /\ \A o \in AllTasks :
              (t.is_recovery /\ t.original_task_id = o.id) => t.decay_cost >= o.decay_cost

C4_Witness ==
    /\ lastOp.op = "skipTask" /\ ~lastOp.threw
    /\ BothCopies(lastOp.id, LAMBDA t : t.status = "skipped" /\ t.decay_cost = 1)
    /\ Cardinality(dbTasks) >= 2

(* the step is a call op(id) that found the task in the in-memory list *)
Called(op) == lastOp' # lastOp /\ lastOp'.op = op /\ lastOp'.found

(* the timeline gained exactly one entry, at its end, and kept all others *)
AppendedOne == Len(dbTimeline') = Len(dbTimeline) + 1 /\ SubSeq(dbTimeline', 1, Len(dbTimeline)) = dbTimeline

LastEntry == dbTimeline'[Len(dbTimeline')]

(* the number of timeline entries that reference id *)
EntriesOf(entries, id) == Cardinality({i \in 1..Len(entries) : entries[i].reference_id = id})

(* C5: completeTask(id) of a task in the store sets status = completed and completed_at =
   now in the list and in the row, and appends exactly one timeline entry, of type
   study_session with was_avoided = false and reference_id = id. *)
C5_CompleteStep ==
    Called("completeTask")
    => /\ found(tasks', lastOp'.id) /\ hasRow(dbTasks', lastOp'.id)
       /\ \A t \in {find(tasks', lastOp'.id), rowOf(dbTasks', lastOp'.id)} :
             t.status = "completed" /\ t.completed_at = clock
       /\ AppendedOne
       /\ LastEntry.entry_type = "study_session"
       /\ LastEntry.was_avoided = FALSE
       /\ LastEntry.reference_id = lastOp'.id

C5_CompleteTask == [][C5_CompleteStep]_vars

C5_Witness ==
    /\ lastOp.op = "completeTask" /\ lastOp.found /\ lastOp.prev = "pending"
    /\ BothCopies(lastOp.id, LAMBDA t : t.status = "completed" /\ t.completed_at = lastOp.ts)
    /\ EntriesOf(dbTimeline, lastOp.id) = 1

(* C6: skipTask(id) of a task in the store sets status = skipped and skipped_at = now in
   the list and in the row, keeps scheduled_date, and appends exactly one timeline entry,
   of type planner_failure with was_avoided = true and reference_id = id. *)
C6_SkipStep ==
    Called("skipTask")
    => /\ found(tasks', lastOp'.id) /\ hasRow(dbTasks', lastOp'.id)
       /\ \A t \in {find(tasks', lastOp'.id), rowOf(dbTasks', lastOp'.id)} :
             /\ t.status = "skipped" /\ t.skipped_at = clock
             /\ t.scheduled_date = find(tasks, lastOp'.id).scheduled_date
       /\ AppendedOne
       /\ LastEntry.entry_type = "planner_failure"
       /\ LastEntry.was_avoided = TRUE
       /\ LastEntry.reference_id = lastOp'.id

C6_SkipTask == [][C6_SkipStep]_vars

C6_Witness ==
    /\ lastOp.op = "skipTask" /\ lastOp.found /\ lastOp.prev = "pending"
    /\ BothCopies(lastOp.id, LAMBDA t :
           t.status = "skipped" /\ t.skipped_at = lastOp.ts /\ t.scheduled_date = Today + 1)
    /\ EntriesOf(dbTimeline, lastOp.id) = 1

(* the title of a timeline entry carries the deleted marker *)
MarkedDeleted(e) == Len(e.title) >= 2 /\ e.title[2] = "deleted"

(* C7: after deleteTask(id) of a task in the store the task is gone and at least one
   timeline entry with reference_id = id carries the deleted marker: exactly one
   planner_failure entry is inserted when none existed, and otherwise the existing entries
   are rewritten in place and their number does not change. *)
C7_DeleteStep ==
    Called("deleteTask")
    => LET id == lastOp'.id
       IN /\ ~found(tasks', id) /\ ~hasRow(dbTasks', id)
          /\ \E i \in 1..Len(dbTimeline') :
                dbTimeline'[i].reference_id = id /\ MarkedDeleted(dbTimeline'[i])
          /\ IF EntriesOf(dbTimeline, id) = 0
             THEN /\ AppendedOne
                  /\ LastEntry.entry_type = "planner_failure"
                  /\ EntriesOf(dbTimeline', id) = 1
             ELSE /\ Len(dbTimeline') = Len(dbTimeline)
                  /\ EntriesOf(dbTimeline', id) = EntriesOf(dbTimeline, id)
                  /\ \A i \in 1..Len(dbTimeline) :
                        /\ dbTimeline'[i].reference_id = dbTimeline[i].reference_id
                        /\ dbTimeline[i].reference_id # id => dbTimeline'[i] = dbTimeline[i]

C7_DeleteLeavesTrace == [][C7_DeleteStep]_vars

C7_Witness ==
    /\ lastOp.op = "deleteTask" /\ lastOp.found /\ lastOp.prev = "completed"
    /\ ~hasRow(dbTasks, lastOp.id)
    /\ EntriesOf(dbTimeline, lastOp.id) = 1
    /\ \E i \in 1..Len(dbTimeline) :
          /\ dbTimeline[i].reference_id = lastOp.id
          /\ dbTimeline[i].entry_type = "study_session"
          /\ MarkedDeleted(dbTimeline[i])

(* the step is a call of op, whether or not it found the task *)
Invoked(op) == lastOp' # lastOp /\ lastOp'.op = op

(* the step is undoTask(id) of a task that was skipped *)
UndoOfSkipped(id) == Invoked("undoTask") /\ lastOp'.id = id /\ lastOp'.prev = "skipped"

(* C8: deleteTask(id) removes only the task with that id, from the list and from the
   table, and leaves every other task, those with original_task_id = id included, as it
   was; a step of any function removes a row other than its argument's only when it is
   undoTask of a skipped task and the row is a recovery task of that task. *)
C8_DeleteFrameStep ==
    /\ Invoked("deleteTask")
       => /\ dbTasks' = {r \in dbTasks : r.id # lastOp'.id}
          /\ tasks' = SelectSeq(tasks, LAMBDA t : t.id # lastOp'.id)
          /\ \A r \in dbTasks : r.original_task_id = lastOp'.id => r \in dbTasks'
    /\ \A r \in dbTasks :
          (r.id # lastOp'.id /\ ~hasRow(dbTasks', r.id))
          => (UndoOfSkipped(r.original_task_id) /\ r.is_recovery)
    /\ \A t \in Range(tasks) :
          (t.id # lastOp'.id /\ ~found(tasks', t.id) /\ ~Invoked("loadTasks"))
          => (UndoOfSkipped(t.original_task_id) /\ t.is_recovery)

C8_DeleteRemovesOnlyItsTask == [][C8_DeleteFrameStep]_vars

C8_Witness ==
    /\ lastOp.op = "deleteTask" /\ lastOp.found
    /\ ~found(tasks, lastOp.id) /\ ~hasRow(dbTasks, lastOp.id)
    /\ Len(tasks) >= 1
    /\ Range(tasks) = dbTasks

(* C9: completeTask and skipTask change the status only of a task that is pending or
   in_progress, and the status of a completed or skipped task changes only through
   undoTask, to pending. *)
C9_TerminalStep ==
    \A r \in dbTasks :
        (hasRow(dbTasks', r.id) /\ rowOf(dbTasks', r.id).status # r.status)
        => /\ (Invoked("completeTask") \/ Invoked("skipTask"))
              => r.status \in {"pending", "in_progress"}
           /\ r.status \in {"completed", "skipped"}
              => (Invoked("undoTask") /\ rowOf(dbTasks', r.id).status = "pending")

C9_TerminalUnlessUndone == [][C9_TerminalStep]_vars

-----------------------------------------------------------------------------
(* Properties of the level-based scheduler *)

(* the transition the claim states: again 0, hard max(0, L - 1), good L, easy min(8, L + 1) *)
ReferenceLevel(L, feedback) ==
    IF feedback = "again" THEN 0
    ELSE IF feedback = "hard" THEN (IF L - 1 < 0 THEN 0 ELSE L - 1)
    ELSE IF feedback = "good" THEN L
    ELSE (IF L + 1 > 8 THEN 8 ELSE L + 1)

(* C10: for every level L in 0..8 and every feedback, calculateNextLevel(L, feedback) is
   the reference transition, so it is never negative and never above the last index (8)
   of the interval table. *)
C10_NextLevel ==
    review.count > 0
    => /\ review.level \in 0..8
       /\ review.nextLevel = ReferenceLevel(review.level, review.feedback)
       /\ review.nextLevel >= 0
       /\ review.nextLevel <= Len(REVIEW_INTERVALS) - 1

C10_Witness ==
    /\ review.count > 0
    /\ review.level = 8 /\ review.feedback = "easy" /\ review.nextLevel = 8

-----------------------------------------------------------------------------
(* Properties of the level-based scheduler functions *)

(* C11: calculateNextReviewFromFeedback returns isMastered = true exactly when the level
   after the feedback is 5 or more: level 4 is not mastered, level 5 is. *)
C11_MasteredFromLevelFive ==
    probe.fn = "calculateNextReviewFromFeedback" =>
        (probe.isMastered <=> calculateNextLevel(probe.level, probe.feedback) >= 5)

C11_Witness ==
    /\ probe.fn = "calculateNextReviewFromFeedback"
    /\ probe.level = 4 /\ probe.feedback = "easy"
    /\ probe.nextLevel = 5 /\ probe.isMastered

(* C12: a feedback submitted on a topic of any level 0..8 at clock value T schedules the
   next review at T plus REVIEW_INTERVALS[nextLevel] whole days, nextLevel being the level
   after the feedback, not the level before it. *)
C12_IntervalOfNextLevel ==
    (probe.fn = "calculateNextReviewFromFeedback" /\ probe.level \in Levels) =>
        probe.nextReviewAt =
            plusDays(probe.at, REVIEW_INTERVALS[calculateNextLevel(probe.level, probe.feedback) + 1])

C12_Witness ==
    /\ probe.fn = "calculateNextReviewFromFeedback"
    /\ probe.level = 2 /\ probe.feedback = "easy" /\ probe.nextLevel = 3
    /\ probe.nextReviewAt = plusDays(probe.at, 10)

(* the interval table read at a level clamped into 0..8 *)
ClampedInterval(level) == REVIEW_INTERVALS[Max(0, Min(level, Len(REVIEW_INTERVALS) - 1)) + 1]

(* C13: calculateNextReview clamps every integer level into 0..8 before it reads the
   interval table, so that a level below 0 is scheduled 1 day ahead and a level above 8
   365 days ahead. *)
C13_IntervalClamped ==
    probe.fn = "calculateNextReview" =>
        probe.nextReviewAt = plusDays(probe.at, ClampedInterval(probe.level))

(* C14: needsReviewToday(t) is true exactly when t is not null and t <= now, for every
   timestamp t >= 0, t = 0 included. *)
C14_DueIffAtOrBeforeNow ==
    probe.fn = "needsReviewToday" =>
        (probe.due <=> (probe.t.kind = "time" /\ atOrBefore(probe.t, probe.at)))

(* severity of the decay states of the level-based scheduler *)
Severity(state) ==
    CASE state = "fresh" -> 0
      [] state = "due" -> 1
      [] state = "overdue" -> 2
      [] state = "critical" -> 3

(* the state the fixed thresholds give to a whole-day difference d *)
StateOfDays(d) ==
    CASE d < 0 -> "fresh"
      [] d = 0 -> "due"
      [] d \in 1..3 -> "overdue"
      [] OTHER -> "critical"

(* a timestamp is set when the function's test !nextReviewAt lets it through: it is
   neither null nor the zero timestamp *)
C15_Thresholds ==
    probe.fn = "calculateDecayState" =>
        probe.decay = IF ~truthy(probe.t) THEN "fresh"
                      ELSE StateOfDays(wholeDays(probe.at, probe.t))

C15_Monotone ==
    (probe.fn = "calculateDecayState" /\ probe'.fn = "calculateDecayState") =>
        Severity(probe'.decay) >= Severity(probe.decay)

(* C15: calculateDecayState returns fresh when no timestamp is set and otherwise the state
   of the whole-day difference between now and the timestamp (below 0 fresh, 0 due,
   1 to 3 overdue, above 3 critical); for a fixed timestamp the severity of the state
   never decreases while the clock advances. *)
C15_DecayState == [](C15_Thresholds) /\ [][C15_Monotone]_vars

C15_Witness ==
    /\ probe.fn = "calculateDecayState"
    /\ truthy(probe.t)
    /\ wholeDays(probe.at, probe.t) = 4
    /\ probe.decay = "critical"

-----------------------------------------------------------------------------
(* Properties of the learning store *)

(* the step is a call of the learning function op *)
CallOf(op) == lastCall'.n # lastCall.n /\ lastCall'.op = op

(* the step submits a review: handleReviewFeedback on a topic of the list, or
   completeRevision on a revision of the table *)
Submitted ==
    \/ CallOf("handleReviewFeedback")
    \/ CallOf("completeRevision") /\ hasRow(dbRevisions, lastCall'.id)

(* the id of the topic the submitted review is about *)
ReviewedTopic ==
    IF lastCall'.op = "handleReviewFeedback" THEN lastCall'.id
    ELSE rowOf(dbRevisions, lastCall'.id).topic_id

C16_ReviewStep ==
    Submitted =>
        LET before == rowOf(dbTopics, ReviewedTopic)
            after == rowOf(dbTopics', ReviewedTopic)
        IN  /\ after.decay_state = "fresh"
            /\ after.integrity_percent = 100
            /\ after.last_reviewed_at = wall
            /\ after.review_count = before.review_count + 1

(* C16: every submitted review of a topic, by handleReviewFeedback or by completeRevision,
   leaves the topic with decay_state = fresh, integrity_percent = 100 and
   last_reviewed_at = now, and with a review_count one higher than before. *)
C16_ReviewResets == [][C16_ReviewStep]_vars

(* the rows of revisions the step inserted *)
AddedRevisions == {r \in dbRevisions' : ~hasRow(dbRevisions, r.id)}

C17_ReviewStep ==
    Submitted =>
        LET due == IF lastCall'.op = "completeRevision" THEN {rowOf(dbRevisions, lastCall'.id)}
                   ELSE {r \in dbRevisions : /\ r.topic_id = ReviewedTopic
                                              /\ r.completed_at = NoTime
                                              /\ atOrBefore(r.scheduled_at, wall)}
        IN  /\ \A r \in due : rowOf(dbRevisions', r.id).completed_at = wall
            /\ Cardinality(AddedRevisions) = 1
            /\ \A r \in AddedRevisions :
                   /\ r.topic_id = ReviewedTopic
                   /\ r.completed_at = NoTime
                   /\ r.scheduled_at = rowOf(dbTopics', ReviewedTopic).next_review_at

(* C17: every submitted review of a topic closes the topic's due revision (completed_at =
   now) and inserts exactly one new open revision of the same topic, scheduled at the
   topic's new next_review_at. *)
C17_ReviewClosesAndSchedules == [][C17_ReviewStep]_vars

(* a revision that is neither completed nor marked missed *)
IsOpen(r) == r.completed_at = NoTime /\ ~r.was_missed

(* the step is markRevisionMissed(id) on an open revision *)
MissOfOpen ==
    /\ CallOf("markRevisionMissed")
    /\ hasRow(dbRevisions, lastCall'.id)
    /\ IsOpen(rowOf(dbRevisions, lastCall'.id))

(* the decay state of a number of whole days since the last review *)
StateOfElapsed(d) ==
    CASE d <= 1 -> "fresh"
      [] d \in 2..3 -> "unstable"
      [] d \in 4..7 -> "decaying"
      [] OTHER -> "neglected"

C18_MissStep ==
    MissOfOpen =>
        LET revision == rowOf(dbRevisions, lastCall'.id)
            before == rowOf(dbTopics, revision.topic_id)
            after == rowOf(dbTopics', revision.topic_id)
        IN  /\ dbRevisions' = (dbRevisions \ {revision}) \cup {[revision EXCEPT !.was_missed = TRUE]}
            /\ after.integrity_percent =
                   (IF before.integrity_percent >= 15 THEN before.integrity_percent - 15 ELSE 0)
            /\ after.decay_state = StateOfElapsed(wholeDays(wall, before.last_reviewed_at))
            /\ AppendedOne
            /\ LastEntry.entry_type = "missed_revision"
            /\ LastEntry.reference_id = revision.id
            /\ LastEntry.was_avoided = TRUE

(* C18: markRevisionMissed on an open revision sets was_missed on that revision alone,
   lowers the topic's integrity_percent by 15 but not below 0, sets the topic's decay_state
   to the state of the whole days since its last review, and appends exactly one timeline
   entry, of type missed_revision with was_avoided = true. *)
C18_MarkMissed == [][C18_MissStep]_vars

C18_Witness ==
    /\ lastCall.op = "markRevisionMissed"
    /\ hasRow(dbRevisions, lastCall.id)
    /\ rowOf(dbRevisions, lastCall.id).was_missed
    /\ rowOf(dbRevisions, lastCall.id).completed_at = NoTime
    /\ rowOf(dbTopics, rowOf(dbRevisions, lastCall.id).topic_id).integrity_percent = 0
    /\ rowOf(dbTopics, rowOf(dbRevisions, lastCall.id).topic_id).decay_state = "neglected"
    /\ Len(dbTimeline) = 2
    /\ dbTimeline[2].entry_type = "missed_revision"

C19_ClosedStep ==
    ( /\ CallOf("completeRevision") \/ CallOf("markRevisionMissed")
      /\ hasRow(dbRevisions, lastCall'.id)
      /\ ~IsOpen(rowOf(dbRevisions, lastCall'.id)) ) =>
        LET topicId == rowOf(dbRevisions, lastCall'.id).topic_id
        IN  /\ dbRevisions' = dbRevisions
            /\ dbTimeline' = dbTimeline
            /\ rowOf(dbTopics', topicId).integrity_percent = rowOf(dbTopics, topicId).integrity_percent
            /\ rowOf(dbTopics', topicId).review_count = rowOf(dbTopics, topicId).review_count

(* C19: once a revision is completed or marked missed, a later completeRevision or
   markRevisionMissed on it changes no revision row, adds no revision and no timeline
   entry, and leaves the topic's integrity_percent and review_count as they are. *)
C19_ClosedRevisionsImmutable == [][C19_ClosedStep]_vars

C20_InRange == \A t \in dbTopics : t.integrity_percent \in 0..100

C20_NoIncreaseStep ==
    \A t \in dbTopics :
        (~Submitted \/ ReviewedTopic # t.id) =>
            rowOf(dbTopics', t.id).integrity_percent <= t.integrity_percent

(* C20: every topic's integrity_percent is in 0..100 in every reachable state of the
   learning store, and no step other than a completed review of the topic raises it. *)
C20_IntegrityDecays == [](C20_InRange) /\ [][C20_NoIncreaseStep]_vars

-----------------------------------------------------------------------------
(* Properties of calls on ids that are missing or already settled *)

C21_NotFoundStep ==
    \A op \in {"completeTask", "skipTask", "undoTask", "deleteTask"} :
        (Invoked(op) /\ ~lastOp'.found) =>
            /\ lastOp'.threw
            /\ dbTasks' = dbTasks
            /\ dbTimeline' = dbTimeline

(* C21: completeTask, skipTask, undoTask and deleteTask called with an id that is not in
   the current task list signal a not-found failure and write nothing to the tables
   (likewise completeRevision and markRevisionMissed on a missing revision). *)
C21_NotFoundSignalled == [][C21_NotFoundStep]_vars

(* a task without its modification stamp: the fields of a Task of the planner *)
TaskFields(t) == [t EXCEPT !.updated_at = 0]

C22_UndoPendingStep ==
    (Invoked("undoTask") /\ lastOp'.found /\ lastOp'.prev = "pending") =>
        /\ ~lastOp'.threw
        /\ MapSeq(tasks', TaskFields) = MapSeq(tasks, TaskFields)
        /\ {TaskFields(r) : r \in dbTasks'} = {TaskFields(r) : r \in dbTasks}
        /\ dbTimeline' = dbTimeline

(* C22: undoTask on a task that is already pending raises nothing and leaves the fields of
   every task (the modification stamp updated_at aside), the set of tasks and the timeline
   entries as they were, in the list and in the tables. *)
C22_UndoPendingNoOp == [][C22_UndoPendingStep]_vars

C22_Witness ==
    /\ lastOp.op = "undoTask" /\ lastOp.found /\ lastOp.prev = "pending" /\ ~lastOp.threw
    /\ BothCopies(lastOp.id, LAMBDA t : t.status = "pending" /\ t.updated_at = lastOp.ts)

(* ---- calls of the confidence-based calculateNextReview ---- *)

MaxReviewCount == 5
Confidences == 0..100

confidenceRecord(reviewCount) ==
    [fn |-> "none", reviewCount |-> reviewCount, confidence |-> NULL,
     at |-> NoTime, nextReviewAt |-> NoTime]

ConfidenceInit ==
    /\ probe \in {confidenceRecord(n) : n \in 0..MaxReviewCount}
    /\ wall = ProbeStart

callNextReviewConfidence(confidence) ==
    /\ probe' = [probe EXCEPT !.fn = "calculateNextReview",
                              !.confidence = confidence,
                              !.at = Date_now,
                              !.nextReviewAt = calculateNextReview_confidence(probe.reviewCount,
                                                                              confidence)]
    /\ UNCHANGED <<plannerVars, review, wall, storeVars>>

SpecConfidenceInit ==
    /\ PlannerInit /\ LearningIdle /\ ConfidenceInit
    /\ topics = <<>> /\ dueRevisions = <<>> /\ dbTopics = {} /\ dbRevisions = {}
    /\ lastCall = [op |-> "none", id |-> NULL, n |-> 0]

SpecConfidenceNext ==
    \/ passDay
    \/ \E c \in Confidences : callNextReviewConfidence(c)

(* the confidence-based calculateNextReview on every review count and confidence *)
SpecConfidence == SpecConfidenceInit /\ [][SpecConfidenceNext]_vars

(* Properties of the confidence-based interval *)

ScheduledDays(p) == p.nextReviewAt.d - p.at.d
BaseInterval(p) == REVIEW_INTERVALS_confidence[Min(p.reviewCount, 4) + 1]
ScalePercent(c) == IF c < 50 THEN 50 + c ELSE IF c > 70 THEN 100 + (c - 70) ELSE 100

C23_ScaledInterval ==
    probe.fn = "calculateNextReview" =>
        LET n == ScheduledDays(probe)
            base == BaseInterval(probe)
            scaled == base * ScalePercent(probe.confidence)
        IN  /\ probe.nextReviewAt.kind = "time" /\ probe.nextReviewAt.ms = probe.at.ms
            /\ n >= 1
            /\ n = Max(1, scaled \div 100)
            /\ 2 * n >= base
            /\ 10 * n <= 13 * base

C23_MonotoneStep ==
    (/\ probe.fn = "calculateNextReview" /\ probe'.fn = "calculateNextReview"
     /\ probe'.at = probe.at /\ probe'.confidence >= probe.confidence) =>
        ScheduledDays(probe') >= ScheduledDays(probe)

(* C23: for every reviewCount >= 0 and confidence c in 0..100 the confidence-based
   calculateNextReview schedules now + n days, n being the base interval
   [1,3,7,21,45][min(reviewCount,4)] scaled by f(c) (50% + c for c < 50, 100% for
   50..70, 100% + (c - 70) for c > 70) in whole days, at least 1, between 50% and 130%
   of the base interval, and non-decreasing in c *)
C23_ConfidenceInterval == [](C23_ScaledInterval) /\ [][C23_MonotoneStep]_vars

(* Properties of the order of the rendered task list *)

UntimedLast(list) ==
    \A i, j \in 1..Len(list) :
        (/\ i < j /\ list[i].scheduled_date = list[j].scheduled_date
         /\ list[i].scheduled_time = NULL) => list[j].scheduled_time = NULL

C27_OrderStep ==
    /\ Invoked("loadTasks") => UntimedLast(tasks')
    /\ \A op \in {"addTask", "completeTask", "skipTask", "undoTask", "deleteTask"} :
           (Invoked(op) /\ UntimedLast(tasks)) => UntimedLast(tasks')

(* C27: in the task list used for rendering, the tasks without a scheduled_time come after
   all tasks of the same date that have one; loadTasks establishes this and every later
   addTask, completeTask, skipTask, undoTask and deleteTask keeps it *)
C27_UntimedTasksLast == [][C27_OrderStep]_vars

(* Properties relating the timeline to the status of the tasks *)

C29_Quiescent == ~lastOp.threw

(* C29: between operations, when no write has failed, a task that exists has timeline
   entries with its id as reference_id exactly when its status is completed or skipped:
   none while it is pending, at least one once it is completed or skipped *)
C29_EntriesFollowStatus ==
    C29_Quiescent =>
        \A r \in dbTasks :
            /\ r.status = "pending" => EntriesOf(dbTimeline, r.id) = 0
            /\ r.status \in {"completed", "skipped"} => EntriesOf(dbTimeline, r.id) >= 1

(* Properties relating the status of a task to its timestamps *)

StatusStamped(t) ==
    /\ t.status = "pending" => (t.completed_at = NULL /\ t.skipped_at = NULL)
    /\ t.status = "completed" => t.completed_at # NULL
    /\ t.status = "skipped" => t.skipped_at # NULL

(* C30: after any sequence of addTask, completeTask, skipTask, undoTask and deleteTask every
   task of the store, in the list and in the table, has completed_at = null and
   skipped_at = null while pending, a completed_at when completed and a skipped_at when
   skipped *)
C30_StatusMatchesTimestamps ==
    /\ \A i \in 1..Len(tasks) : StatusStamped(tasks[i])
    /\ \A r \in dbTasks : StatusStamped(r)

C30_Witness ==
    /\ lastOp.op = "undoTask" /\ lastOp.found /\ lastOp.prev = "skipped"
    /\ lastOp.pred = <<"skipTask", lastOp.id, "completed", FALSE>>
    /\ BothCopies(lastOp.id, LAMBDA t : /\ t.status = "pending"
                                        /\ t.completed_at = NULL /\ t.skipped_at = NULL)

(* Properties of the lists that offer the Review action *)

DueNow(t) ==
    /\ ~t.is_mastered
    /\ t.next_review_at.kind = "time" /\ atOrBefore(t.next_review_at, Date_now)

(* C28: every topic that is not mastered and whose next_review_at is non-null and at or
   before the current time is in the Learnt Today list or in the Due for Review list, the
   lists that show the Review action, whatever its review_count and creation day *)
C28_DueTopicsReviewable ==
    \A i \in 1..Len(topics) :
        DueNow(topics[i]) => (learntToday(topics[i]) \/ forReview(topics[i]))

-----------------------------------------------------------------------------
(* The planner store await by await: a store function runs up to its first await when it
   is called and resumes when the statement it awaits settles, so another call can start
   in between; SQLite settles the statements in the order in which they were issued *)

storeState ==
    [tasks |-> tasks, dbTasks |-> dbTasks, dbTimeline |-> dbTimeline, inflight |-> inflight]

(* the statement a store function awaits first *)
firstStatement(op) ==
    CASE op = "addTask" -> "INSERT task"
      [] op = "deleteTask" -> "DELETE task"
      [] OTHER -> "UPDATE task"

(* a store function from its call to its first await: tasks.find, the throw of skipTask and
   undoTask, the optimistic set() and the first statement issued; added is the task addTask
   builds *)
begun(s, op, id, timestamp, added) ==
    LET hit == found(s.tasks, id)
        task == IF op = "addTask" THEN added
                ELSE IF hit THEN <<find(s.tasks, id)>> ELSE <<>>
        call == [op |-> op, id |-> id, ts |-> timestamp, task |-> task,
                 pc |-> firstStatement(op)]
        wasSkipped == hit /\ find(s.tasks, id).status = "skipped"
        optimistic ==
            CASE op = "completeTask" ->
                     MapSeq(s.tasks, LAMBDA t :
                         IF t.id = id THEN completedTask(t, timestamp) ELSE t)
              [] op = "skipTask" ->
                     MapSeq(s.tasks, LAMBDA t :
                         IF t.id = id THEN skippedTask(t, timestamp) ELSE t)
              [] op = "undoTask" ->
                     FilterSeq(
                         MapSeq(s.tasks, LAMBDA t :
                             IF t.id = id THEN undoneTask(t, timestamp) ELSE t),
                         LAMBDA t : ~(wasSkipped /\ isRecoveryOf(t, id)))
              [] op = "deleteTask" -> withoutTask(s.tasks, id)
              [] OTHER -> s.tasks
    IN  IF op \in {"skipTask", "undoTask"} /\ ~hit
        THEN s  \* throw new Error('Task not found')
        ELSE [s EXCEPT !.tasks = optimistic, !.inflight = Append(s.inflight, call)]

(* the oldest pending statement settles and the function that awaits it runs to its next
   await or to its end; ok = FALSE is a rejected statement, loaded is the result set of the
   SELECT of loadTasks() *)
settled(s, ok, loaded) ==
    LET c == Head(s.inflight)
        rest == Tail(s.inflight)
        finished == [s EXCEPT !.inflight = rest]
        issue(next) == Append(rest, [c EXCEPT !.pc = next])
    IN  IF ~ok
        THEN IF c.op \in {"skipTask", "undoTask"} /\ c.pc # "loadTasks"
             THEN \* catch (error) { await get().loadTasks(); }
                  [s EXCEPT !.inflight = issue("loadTasks")]
             ELSE \* completeTask, deleteTask and addTask reject; loadTasks logs the error
                  finished
        ELSE CASE c.pc = "INSERT task" ->
                      [finished EXCEPT !.dbTasks = @ \cup {c.task[1]},
                                       !.tasks = <<c.task[1]>> \o @]
               [] c.pc = "UPDATE task" /\ c.op = "completeTask" ->
                      [s EXCEPT !.dbTasks = updateRow(@, c.id, LAMBDA r : completedTask(r, c.ts)),
                                !.inflight = IF c.task # <<>> THEN issue("INSERT entry")
                                             ELSE rest]
               [] c.pc = "UPDATE task" /\ c.op = "skipTask" ->
                      [s EXCEPT !.dbTasks = updateRow(@, c.id, LAMBDA r : skippedTask(r, c.ts)),
                                !.inflight = issue("INSERT entry")]
               [] c.pc = "UPDATE task" /\ c.op = "undoTask" ->
                      [s EXCEPT !.dbTasks = updateRow(@, c.id, LAMBDA r : undoneTask(r, c.ts)),
                                !.inflight = IF c.task[1].status = "skipped"
                                             THEN issue("DELETE recovery")
                                             ELSE issue("DELETE entries")]
               [] c.pc = "DELETE recovery" ->
                      [s EXCEPT !.dbTasks = {r \in @ : ~isRecoveryOf(r, c.id)},
                                !.inflight = issue("DELETE entries")]
               [] c.pc = "DELETE entries" ->
                      [finished EXCEPT !.dbTimeline = deleteEntries(@, c.id)]
               [] c.pc = "DELETE task" ->
                      [s EXCEPT !.dbTasks = {r \in @ : r.id # c.id},
                                !.inflight = IF c.task # <<>> THEN issue("SELECT entry")
                                             ELSE rest]
               [] c.pc = "SELECT entry" ->
                      [s EXCEPT !.inflight =
                          IF \E i \in 1..Len(s.dbTimeline) : s.dbTimeline[i].reference_id = c.id
                          THEN issue("UPDATE entry")
                          ELSE issue("INSERT entry")]
               [] c.pc = "UPDATE entry" ->
                      [finished EXCEPT !.dbTimeline = MapSeq(s.dbTimeline, LAMBDA e :
                          IF e.reference_id = c.id THEN markedDeleted(e, c.task[1]) ELSE e)]
               [] c.pc = "INSERT entry" ->
                      [finished EXCEPT !.dbTimeline = Append(@,
                          CASE c.op = "completeTask" -> completionEntry(c.task[1], c.ts)
                            [] c.op = "skipTask" -> skipEntry(c.task[1], c.ts)
                            [] OTHER -> deletionEntry(c.task[1], c.ts))]
               [] c.pc = "loadTasks" ->
                      [finished EXCEPT !.tasks = loaded]

(* what batch records of a call *)
batchWith(op, id, added) ==
    LET call == [op |-> op, id |-> id, ts |-> now, added |-> added]
    IN  IF inflight = <<>>
        THEN [base |-> storeState, calls |-> <<call>>, failed |-> FALSE]
        ELSE [batch EXCEPT !.calls = Append(@, call)]

begins(op, id, added) ==
    /\ clock < MaxClock
    /\ LET s == begun(storeState, op, id, now, added)
       IN  tasks' = s.tasks /\ inflight' = s.inflight
    /\ batch' = batchWith(op, id, added)
    /\ lastOp' = opRecord(op, id, op \in {"skipTask", "undoTask"} /\ ~found(tasks, id))
    /\ clock' = clock + 1
    /\ UNCHANGED <<dbTasks, dbTimeline, learningVars>>

(* addTask(name, timeEstimate, date) is called *)
addTask_begins(name, timeEstimate, date) ==
    /\ nextId <= MaxTasks
    /\ begins("addTask", nextId, <<newTask(nextId, name, timeEstimate, date, NULL, NULL, now)>>)
    /\ nextId' = nextId + 1

(* completeTask(id) is called *)
completeTask_begins(id) == begins("completeTask", id, <<>>) /\ UNCHANGED nextId

(* skipTask(id) is called *)
skipTask_begins(id) == begins("skipTask", id, <<>>) /\ UNCHANGED nextId

(* undoTask(id) is called *)
undoTask_begins(id) == begins("undoTask", id, <<>>) /\ UNCHANGED nextId

(* deleteTask(id) is called *)
deleteTask_begins(id) == begins("deleteTask", id, <<>>) /\ UNCHANGED nextId

(* the oldest pending statement resolves *)
statementResolves ==
    /\ inflight # <<>>
    /\ \E loaded \in IF Head(inflight).pc = "loadTasks" THEN selectTasks(dbTasks, NULL)
                     ELSE {<<>>} :
           LET s == settled(storeState, TRUE, loaded)
           IN  /\ tasks' = s.tasks /\ dbTasks' = s.dbTasks
               /\ dbTimeline' = s.dbTimeline /\ inflight' = s.inflight
    /\ UNCHANGED <<nextId, clock, lastOp, batch, learningVars>>

(* the oldest pending statement rejects: the write did not happen *)
statementRejects ==
    /\ inflight # <<>>
    /\ LET s == settled(storeState, FALSE, <<>>)
       IN  /\ tasks' = s.tasks /\ dbTasks' = s.dbTasks
           /\ dbTimeline' = s.dbTimeline /\ inflight' = s.inflight
    /\ batch' = [batch EXCEPT !.failed = TRUE]
    /\ UNCHANGED <<nextId, clock, lastOp, learningVars>>

(* the ids a caller can pass: those of the tasks addTask has handed to the list *)
KnownIds == {id \in IssuedIds : \A i \in 1..Len(inflight) : inflight[i].pc # "INSERT task"
                                                          \/ inflight[i].id # id}

SpecOverlapNext ==
    \/ \E n \in Names, m \in Estimates : addTask_begins(n, m, Today)
    \/ \E id \in KnownIds : completeTask_begins(id)
    \/ \E id \in KnownIds : skipTask_begins(id)
    \/ \E id \in KnownIds : undoTask_begins(id)
    \/ \E id \in KnownIds : deleteTask_begins(id)
    \/ statementResolves

(* calls of the store functions that start while earlier calls await their statements *)
SpecOverlap == Init /\ [][SpecOverlapNext]_vars

SpecFailureNext ==
    \/ \E n \in Names, m \in Estimates : addTask_begins(n, m, Today)
    \/ \E id \in KnownIds : completeTask_begins(id)
    \/ \E id \in KnownIds : skipTask_begins(id)
    \/ \E id \in KnownIds : undoTask_begins(id)
    \/ \E id \in KnownIds : deleteTask_begins(id)
    \/ statementResolves
    \/ statementRejects

(* the same calls when any statement can be rejected by SQLite *)
SpecFailure == Init /\ [][SpecFailureNext]_vars

(* Properties of overlapping calls *)

RECURSIVE drained(_)
drained(s) == IF s.inflight = <<>> THEN s ELSE drained(settled(s, TRUE, <<>>))

RECURSIVE inSequence(_, _)
inSequence(s, calls) ==
    IF calls = <<>> THEN s
    ELSE LET c == Head(calls)
         IN  inSequence(drained(begun(s, c.op, c.id, c.ts, c.added)), Tail(calls))

EntryKind(e) == <<e.entry_type, e.reference_id, e.description>>

Outcome(s) ==
    [ list |-> {[id |-> s.tasks[i].id, status |-> s.tasks[i].status] : i \in 1..Len(s.tasks)},
      rows |-> {[id |-> r.id, status |-> r.status] : r \in s.dbTasks},
      entries |-> [k \in {EntryKind(s.dbTimeline[i]) : i \in 1..Len(s.dbTimeline)} |->
                      Cardinality({i \in 1..Len(s.dbTimeline) : EntryKind(s.dbTimeline[i]) = k})] ]

C24_SerialStep ==
    (inflight # <<>> /\ inflight' = <<>>) =>
        \E order \in Perms(Range(batch.calls)) :
            Outcome(inSequence(batch.base, order)) =
                Outcome([tasks |-> tasks', dbTasks |-> dbTasks', dbTimeline |-> dbTimeline',
                         inflight |-> inflight'])

(* C24: when the last of a set of overlapping calls of completeTask, skipTask, undoTask and
   deleteTask (the same one twice included) has finished, the status of every task, in the
   list and in the table, and the timeline entries are those that some sequential order of
   the same calls produces *)
C24_OverlapIsSerial == [][C24_SerialStep]_vars

(* Properties of rejected writes *)

SameState(a, b) ==
    /\ a.id = b.id /\ a.status = b.status
    /\ a.completed_at = b.completed_at /\ a.skipped_at = b.skipped_at

(* C25: once the calls among which a write was rejected have finished, the list has been
   fetched again: every task of the list has the status, completed_at and skipped_at of
   its row, and every row is in the list *)
C25_RefetchedAfterFailure ==
    (inflight = <<>> /\ batch.failed) =>
        /\ \A i \in 1..Len(tasks) : \E r \in dbTasks : SameState(tasks[i], r)
        /\ \A r \in dbTasks : \E i \in 1..Len(tasks) : SameState(tasks[i], r)

-----------------------------------------------------------------------------
(* The process is killed while a function awaits a statement: the writes that have settled
   stay in SQLite, the remaining statements are never issued, and the in-memory lists are
   empty when the app starts again *)

restarted == tasks' = <<>> /\ inflight' = <<>> /\ topics' = <<>> /\ dueRevisions' = <<>>

(* how many writes of a learning-store function settle before the process is killed *)
WritesBeforeKill == 1..2

(* the process is killed while planner statements are pending *)
processKilled ==
    /\ inflight # <<>>
    /\ restarted
    /\ UNCHANGED <<dbTasks, dbTimeline, nextId, clock, lastOp, batch, review, wall, probe,
                   dbTopics, dbRevisions, lastCall>>

(* completeRevision(revisionId, confidenceAfter) killed after the UPDATE revisions
   (writes = 1) or after the UPDATE study_topics (writes = 2) *)
completeRevision_killed(revisionId, confidenceAfter, writes) ==
    /\ lastCall.n < MaxCalls
    /\ hasRow(dbRevisions, revisionId)
    /\ hasRow(dbTopics, rowOf(dbRevisions, revisionId).topic_id)
    /\ LET timestamp == Date_now
           topic == rowOf(dbTopics, rowOf(dbRevisions, revisionId).topic_id)
       IN  /\ dbRevisions' =
                  updateRow(dbRevisions, revisionId,
                            LAMBDA r : completedRevision(r, topic, confidenceAfter, timestamp))
           /\ dbTopics' =
                  IF writes >= 2
                  THEN updateRow(dbTopics, topic.id,
                                 LAMBDA r : revisedTopic(topic, confidenceAfter, timestamp))
                  ELSE dbTopics
    /\ restarted
    /\ lastCall' = callRecord("completeRevision killed", revisionId)
    /\ UNCHANGED <<dbTasks, dbTimeline, nextId, clock, lastOp, batch, review, wall, probe>>

(* markRevisionMissed(revisionId) killed after the UPDATE revisions (writes = 1) or after
   the UPDATE study_topics (writes = 2) *)
markRevisionMissed_killed(revisionId, writes) ==
    /\ lastCall.n < MaxCalls
    /\ hasRow(dbRevisions, revisionId)
    /\ hasRow(dbTopics, rowOf(dbRevisions, revisionId).topic_id)
    /\ LET timestamp == Date_now
           topic == rowOf(dbTopics, rowOf(dbRevisions, revisionId).topic_id)
       IN  /\ dbRevisions' = updateRow(dbRevisions, revisionId, LAMBDA r : missedRevision(r))
           /\ dbTopics' =
                  IF writes >= 2
                  THEN updateRow(dbTopics, topic.id, LAMBDA r : missedTopic(r, timestamp))
                  ELSE dbTopics
    /\ restarted
    /\ lastCall' = callRecord("markRevisionMissed killed", revisionId)
    /\ UNCHANGED <<dbTasks, dbTimeline, nextId, clock, lastOp, batch, review, wall, probe>>

(* a run of the crash model uses one of the two stores *)
PlannerUnused == clock = 1 /\ inflight = <<>>
LearningUnused == lastCall.n = 0

SpecCrashNext ==
    \/ LearningUnused /\ inflight = <<>>
           /\ \E n \in Names, m \in Estimates : addTask_begins(n, m, Today)
    \/ LearningUnused /\ inflight = <<>> /\ \E id \in KnownIds : skipTask_begins(id)
    \/ statementResolves
    \/ processKilled
    \/ PlannerUnused /\ loadTopics
    \/ PlannerUnused /\ \E c \in ConfidenceLevels : addTopic(c)
    \/ PlannerUnused /\ \E id \in IssuedIds, c \in ConfidencesAfter : completeRevision(id, c)
    \/ PlannerUnused /\ \E id \in IssuedIds : markRevisionMissed(id)
    \/ PlannerUnused /\ \E id \in IssuedIds, c \in ConfidencesAfter, w \in WritesBeforeKill :
           completeRevision_killed(id, c, w)
    \/ PlannerUnused /\ \E id \in IssuedIds, w \in WritesBeforeKill :
           markRevisionMissed_killed(id, w)

(* skipTask, completeRevision and markRevisionMissed when the process can be killed between
   two of their writes *)
SpecCrash == SpecLearningInit /\ [][SpecCrashNext]_vars

(* Properties of the writes that survive a killed process *)

C26_EntriesHavePrimary ==
    \A i \in 1..Len(dbTimeline) :
        /\ dbTimeline[i].description = "Task skipped" =>
               \E r \in dbTasks : /\ r.id = dbTimeline[i].reference_id
                                  /\ r.status = "skipped" /\ r.skipped_at # NULL
        /\ dbTimeline[i].entry_type = "missed_revision" =>
               \E r \in dbRevisions : r.id = dbTimeline[i].reference_id /\ r.was_missed

C26_KilledStep ==
    LET id == lastCall'.id
        revision == rowOf(dbRevisions', id)
        before == rowOf(dbTopics, revision.topic_id)
        after == rowOf(dbTopics', revision.topic_id)
    IN  /\ (lastCall' # lastCall /\ lastCall'.op = "completeRevision killed") =>
               /\ after.review_count = before.review_count + 1
               /\ after.last_reviewed_at = revision.completed_at
        /\ (lastCall' # lastCall /\ lastCall'.op = "markRevisionMissed killed") =>
               after.integrity_percent = Max(0, before.integrity_percent - 15)
        /\ (inflight # <<>> /\ inflight' = <<>> /\ tasks' = <<>>) =>
               \A i \in 1..Len(inflight) :
                   (inflight[i].op = "skipTask" /\ inflight[i].pc = "INSERT entry") =>
                       \E r \in dbTasks' : r.id = inflight[i].id /\ r.status = "skipped"

(* C26: every multi-write operation writes its primary entity first, then the derived
   entity, then the timeline entry: no timeline entry exists whose primary write did not
   happen, and when the process is killed after some of the writes the task, or the
   revision together with its topic, is in the state the operation ends in *)
C26_PrefixSafe == [](C26_EntriesHavePrimary) /\ [][C26_KilledStep]_vars
====
